---- MODULE Spec2Model ----
(***************************************************************************)
(* Model of FinancialReportETL.                                            *)
(*                                                                         *)
(*   src/main_v2.py  whitespace-table reconstruction: comma stripping,     *)
(*                   column boundary detection, cell assignment, and the   *)
(*                   per-page materialisation of the spaced table.         *)
(*   src/main.py     two-stage page classifier loop.                       *)
(*                                                                         *)
(* Text is modelled as a sequence of one-character strings so that strip   *)
(* and comma removal are computed character by character.  Coordinates    *)
(* are integers; token x-coordinates are drawn from even values so that    *)
(* the midpoint (a + b) / 2 of two of them is computed exactly.  Vertical  *)
(* coordinates are in hundredths, so round(top, 1) rounds to a multiple of *)
(* ten.  Scores and confidences are in hundredths as well.                 *)
(***************************************************************************)
EXTENDS Integers, Sequences, FiniteSets, TLC

VARIABLES
    pc,                    \* position of the run
    \* ---- main_v2.py: remove_internal_commas
    text,                  \* the argument of remove_internal_commas
    once,                  \* remove_internal_commas(text)
    twice,                 \* remove_internal_commas(remove_internal_commas(text))
    \* ---- main_v2.py: detect_column_boundaries
    text_positions,        \* the x coordinates of the (x, text) pairs passed in
    boundaries,            \* the list the detector returned
    \* ---- main_v2.py: extract_spaced_table / extract_tables_from_pdf (one page)
    words,                 \* page.extract_words(): sequence of [x1, top, text]
    min_gap,               \* the min_gap argument
    columns,               \* detect_column_boundaries(all_text_positions, min_gap)
    cell_words,            \* per row, per cell: the indices (into words) appended
    spaced_table,          \* the grid extract_spaced_table returned
    csv_files,             \* the spaced-table files written: <<[headers, rows]>>
    \* ---- main.py: process_pdf_with_prefilter
    total_pages,           \* len(pdf.pages)
    page_num,              \* number of the page the loop is at (0 before the first)
    processed,             \* page numbers the loop body was entered for, in order
    total_pages_processed,
    api_calls_saved,
    financial_pages,       \* the accepted list: [page_number, ai_confidence, prefilter_score]
    prefilter_logs,        \* page numbers log_prefilter_result wrote a record for
    stage2_calls,          \* calls of check_financial_table_with_deepseek, with results
    saved_pages,           \* page numbers save_financial_page completed for
    page_text,             \* locals of the loop body: len(page_text.strip()),
    prefilter_score,       \*   the Stage-1 score,
    has_financial_tables,  \*   the classifier's verdict
    confidence             \*   and confidence

commaVars == <<text, once, twice>>

detectVars == <<text_positions, boundaries>>

tableVars == <<words, columns, cell_words, spaced_table, csv_files>>

loopLocals == <<page_text, prefilter_score, has_financial_tables, confidence>>

classifierVars == <<total_pages, page_num, processed, total_pages_processed,
                    api_calls_saved, financial_pages, prefilter_logs, stage2_calls,
                    saved_pages, loopLocals>>

vars == <<pc, min_gap, commaVars, detectVars, tableVars, classifierVars>>

(***************************************************************************)
(* Bounds of the model.                                                    *)
(***************************************************************************)
MaxLen == 3          \* longest argument string of remove_internal_commas
MaxXStep == 7        \* detector inputs are drawn from 2 * (-2 .. MaxXStep)
MaxMinGap == 2       \* min_gap is drawn from 0 .. MaxMinGap
MaxWords == 3        \* most words on a page
MaxPages == 3        \* most pages in a document

(***************************************************************************)
(* Sequences and sets.                                                     *)
(***************************************************************************)
Min(a, b) == IF a <= b THEN a ELSE b

SetMax(S) == CHOOSE m \in S : \A y \in S : y <= m

SetMin(S) == CHOOSE m \in S : \A y \in S : m <= y

\* sorted(list(set(...))): the elements of a set of integers, ascending
RECURSIVE SortedSet(_)
SortedSet(S) ==
    IF S = {} THEN <<>>
    ELSE LET m == SetMin(S) IN <<m>> \o SortedSet(S \ {m})

\* inserts v after every element that is <= v (keeps equal elements in order)
RECURSIVE InsertAsc(_, _)
InsertAsc(s, v) ==
    IF s = <<>> THEN <<v>>
    ELSE IF Head(s) <= v THEN <<Head(s)>> \o InsertAsc(Tail(s), v)
    ELSE <<v>> \o s

\* sorted(list) of integers, ascending
RECURSIVE SortAsc(_)
SortAsc(s) ==
    IF s = <<>> THEN <<>>
    ELSE InsertAsc(SortAsc(SubSeq(s, 1, Len(s) - 1)), s[Len(s)])

Range(s) == { s[i] : i \in DOMAIN s }

(***************************************************************************)
(* remove_internal_commas (main_v2.py 8-12).                               *)
(***************************************************************************)
Chars == {"a", ",", " "}

NoneValue == <<"None">>

IsSpace(c) == c = " "

\* str.strip(): drops the leading and the trailing whitespace
RECURSIVE LStrip(_)
LStrip(s) ==
    IF s # <<>> /\ IsSpace(Head(s)) THEN LStrip(Tail(s)) ELSE s

RECURSIVE RStrip(_)
RStrip(s) ==
    IF s # <<>> /\ IsSpace(s[Len(s)]) THEN RStrip(SubSeq(s, 1, Len(s) - 1)) ELSE s

Strip(s) == RStrip(LStrip(s))

\* re.sub(r',', '', s): every comma removed, the other characters kept in order
RECURSIVE RemoveCommas(_)
RemoveCommas(s) ==
    IF s = <<>> THEN <<>>
    ELSE IF Head(s) = "," THEN RemoveCommas(Tail(s))
    ELSE <<Head(s)>> \o RemoveCommas(Tail(s))

remove_internal_commas(t) ==
    IF t = NoneValue THEN <<>>
    ELSE RemoveCommas(Strip(t))

(***************************************************************************)
(* detect_column_boundaries (main_v2.py 22-48).                            *)
(***************************************************************************)
LeftEdge == 0        \* boundaries = [0]

RightMargin == 10    \* max(x_positions) + 10

MaxColumns == 6      \* min(6, len(gaps) + 1)

\* lines 31-35: the consecutive gaps wider than min_gap, left to right,
\* each <<left x, right x, width>>
Gaps(xs, g) ==
    LET Candidate(i) == <<xs[i - 1], xs[i], xs[i] - xs[i - 1]>>
        Wide == { i \in 2..Len(xs) : xs[i] - xs[i - 1] > g }
        idx == SortedSet(Wide)
    IN  [k \in 1..Len(idx) |-> Candidate(idx[k])]

\* line 38: gaps.sort(key=width, reverse=True); the sort is stable, so gaps of
\* equal width stay in left-to-right order
RECURSIVE InsertByWidth(_, _)
InsertByWidth(s, gap) ==
    IF s = <<>> THEN <<gap>>
    ELSE IF Head(s)[3] >= gap[3] THEN <<Head(s)>> \o InsertByWidth(Tail(s), gap)
    ELSE <<gap>> \o s

RECURSIVE SortByWidthDesc(_)
SortByWidthDesc(s) ==
    IF s = <<>> THEN <<>>
    ELSE InsertByWidth(SortByWidthDesc(SubSeq(s, 1, Len(s) - 1)), s[Len(s)])

\* line 45: midpoint of a gap (exact: both ends are even)
Midpoint(gap) == (gap[1] + gap[2]) \div 2

detect_column_boundaries(positions, g) ==
    IF positions = {} THEN <<>>
    ELSE
        LET x_positions == SortedSet(positions)
            gaps == SortByWidthDesc(Gaps(x_positions, g))
            num_columns == Min(MaxColumns, Len(gaps) + 1)
            taken == { i \in 1..(num_columns - 1) : i <= Len(gaps) }
            mids == [i \in 1..Cardinality(taken) |-> Midpoint(gaps[i])]
        IN  SortAsc(<<LeftEdge>> \o mids \o <<SetMax(positions) + RightMargin>>)

(***************************************************************************)
(* Values of the variables a specification does not use.                   *)
(***************************************************************************)
IdleComma == text = <<>> /\ once = <<>> /\ twice = <<>>

IdleDetect == text_positions = {} /\ boundaries = <<>>

IdleTable ==
    /\ words = <<>>
    /\ columns = <<>>
    /\ cell_words = <<>>
    /\ spaced_table = <<>>
    /\ csv_files = <<>>

IdleClassifier ==
    /\ total_pages = 0
    /\ page_num = 0
    /\ processed = <<>>
    /\ total_pages_processed = 0
    /\ api_calls_saved = 0
    /\ financial_pages = <<>>
    /\ prefilter_logs = <<>>
    /\ stage2_calls = <<>>
    /\ saved_pages = {}
    /\ page_text = 0
    /\ prefilter_score = 0
    /\ has_financial_tables = FALSE
    /\ confidence = 0

(***************************************************************************)
(* SpecComma: remove_internal_commas applied to a string, and to its own   *)
(* result.                                                                 *)
(***************************************************************************)
Strings == UNION { [1..n -> Chars] : n \in 0..MaxLen }

InitComma ==
    /\ pc = "start"
    /\ text \in Strings \cup {NoneValue}
    /\ once = <<>>
    /\ twice = <<>>
    /\ min_gap = 0
    /\ IdleDetect /\ IdleTable /\ IdleClassifier

StripOnce ==
    /\ pc = "start"
    /\ once' = remove_internal_commas(text)
    /\ pc' = "once"
    /\ UNCHANGED <<text, twice, min_gap, detectVars, tableVars, classifierVars>>

StripTwice ==
    /\ pc = "once"
    /\ twice' = remove_internal_commas(once)
    /\ pc' = "done"
    /\ UNCHANGED <<text, once, min_gap, detectVars, tableVars, classifierVars>>

NextComma == StripOnce \/ StripTwice

SpecComma == InitComma /\ [][NextComma]_vars

\* C10: comma stripping is idempotent, strip(strip(x)) = strip(x), and its
\* result holds no comma.
C10_Idempotent ==
    pc = "done" => (twice = once /\ "," \notin Range(once))

(***************************************************************************)
(* SpecDetect: detect_column_boundaries applied to a set of x positions.   *)
(***************************************************************************)
XGrid == { 2 * k : k \in (-2)..MaxXStep }

InitDetect ==
    /\ pc = "start"
    /\ text_positions \in SUBSET XGrid
    /\ min_gap \in 0..MaxMinGap
    /\ boundaries = <<>>
    /\ IdleComma /\ IdleTable /\ IdleClassifier

DetectColumnBoundaries ==
    /\ pc = "start"
    /\ boundaries' = detect_column_boundaries(text_positions, min_gap)
    /\ pc' = "done"
    /\ UNCHANGED <<text_positions, min_gap, commaVars, tableVars, classifierVars>>

NextDetect == DetectColumnBoundaries

SpecDetect == InitDetect /\ [][NextDetect]_vars

StrictlyIncreasing(s) == \A i \in 1..(Len(s) - 1) : s[i] < s[i + 1]

\* C2: for a non-empty set of x positions the boundaries returned are strictly
\* increasing, the first is <= the least x and the last is >= the greatest x.
C2_BoundariesCoverPositions ==
    (pc = "done" /\ text_positions # {}) =>
        /\ StrictlyIncreasing(boundaries)
        /\ boundaries[1] <= SetMin(text_positions)
        /\ boundaries[Len(boundaries)] >= SetMax(text_positions)

\* the consecutive gaps of the input wider than min_gap, each <<left, right>>
QualifyingGaps ==
    { gap \in text_positions \X text_positions :
        /\ gap[1] < gap[2]
        /\ ~\E x \in text_positions : gap[1] < x /\ x < gap[2]
        /\ gap[2] - gap[1] > min_gap }

\* the boundaries between the first and the last of the list returned
InteriorBoundaries == { boundaries[i] : i \in 2..(Len(boundaries) - 1) }

\* the list returned has min(q, 5) + 2 boundaries, q the number of qualifying
\* gaps, and those between its first and its last are the midpoints of
\* min(q, 5) qualifying gaps none of which is narrower than a gap left out
CountAndWidestGaps ==
    LET k == Min(Cardinality(QualifyingGaps), 5)
    IN  /\ Len(boundaries) = k + 2
        /\ Len(boundaries) <= 7
        /\ Cardinality(InteriorBoundaries) = k
        /\ \E chosen \in SUBSET QualifyingGaps :
            /\ Cardinality(chosen) = k
            /\ InteriorBoundaries = { (gap[1] + gap[2]) \div 2 : gap \in chosen }
            /\ \A in \in chosen : \A out \in QualifyingGaps \ chosen :
                out[2] - out[1] <= in[2] - in[1]

\* C12: for a non-empty set of x positions with q gaps wider than min_gap the
\* detector returns exactly min(q, 5) + 2 boundaries (2 when q = 0, never more
\* than 7) and its interior boundaries are the midpoints of the min(q, 5) widest
\* qualifying gaps: no gap left out is wider than a gap taken.
C12_CountAndWidestGaps ==
    (pc = "done" /\ text_positions # {}) => CountAndWidestGaps

\* the same for x positions that all lie at or right of the left edge
C12_InPageCountAndWidestGaps ==
    (pc = "done" /\ text_positions # {} /\ \A x \in text_positions : x >= LeftEdge)
        => CountAndWidestGaps

\* more than five gaps qualify, of two widths, so that some are left out
C12_InPageWitness ==
    /\ pc = "done"
    /\ \A x \in text_positions : x >= LeftEdge
    /\ Cardinality(QualifyingGaps) > 5
    /\ \E a, b \in QualifyingGaps : a[2] - a[1] < b[2] - b[1]

(***************************************************************************)
(* extract_spaced_table (main_v2.py 51-86).                                *)
(***************************************************************************)
\* round(word['top'], 1), tops in hundredths (the tops drawn are never ties)
RoundTop(t) == ((t + 5) \div 10) * 10

\* lines 59-66: the keys of the rows dictionary, ascending
RowKeys(ws) == SortedSet({ RoundTop(ws[i].top) : i \in DOMAIN ws })

\* rows[row_key]: the words of a row, in the order extract_words gave them
RowWords(ws, key) ==
    LET Mine(i) == RoundTop(ws[i].top) = key
    IN  SelectSeq([i \in DOMAIN ws |-> i], Mine)

\* lines 78-81: the first col_idx whose boundary columns[1:][col_idx] is >= x
\* (numbered from 1 here; 0 when the loop ends without a break)
ColumnOfStrict(x, cols) ==
    LET fit == { c \in 1..(Len(cols) - 1) : x < cols[c + 1] }
    IN  IF fit = {} THEN 0 ELSE SetMin(fit)

ColumnOf(x, cols) ==
    LET fit == { c \in 1..(Len(cols) - 1) : x <= cols[c + 1] }
    IN  IF fit = {} THEN 0 ELSE SetMin(fit)

\* lines 75-81 for one row: row = [""] * len(columns), then each word appended
\* to its cell; a cell is kept as the list of the words appended to it
RECURSIVE AssignRow(_, _, _, _)
AssignRow(ws, row, row_words, cols) ==
    IF row_words = <<>> THEN row
    ELSE
        LET i == Head(row_words)
            c == ColumnOf(ws[i].x1, cols)
            next == IF c = 0 THEN row
                    ELSE [row EXCEPT ![c] = Append(row[c], i)]
        IN  AssignRow(ws, next, Tail(row_words), cols)

\* line 70
PageColumns(ws, g) ==
    detect_column_boundaries({ ws[i].x1 : i \in DOMAIN ws }, g)

AssignedCells(ws, g) ==
    LET keys == RowKeys(ws)
        cols == PageColumns(ws, g)
    IN  [r \in 1..Len(keys) |->
            AssignRow(ws, [c \in 1..Len(cols) |-> <<>>], RowWords(ws, keys[r]), cols)]

\* line 80: row[col_idx] += f" {text}" for each word of the cell
RECURSIVE CellText(_, _)
CellText(ws, cell) ==
    IF cell = <<>> THEN <<>>
    ELSE <<" ">> \o ws[Head(cell)].text \o CellText(ws, Tail(cell))

\* line 83: remove_internal_commas(cell.strip())
CleanCell(cell) == remove_internal_commas(Strip(cell))

extract_spaced_table(ws, g) ==
    IF ws = <<>> THEN <<>>
    ELSE
        LET cells == AssignedCells(ws, g)
        IN  [r \in DOMAIN cells |->
                [c \in DOMAIN cells[r] |-> CleanCell(CellText(ws, cells[r][c]))]]

(***************************************************************************)
(* extract_tables_from_pdf, the spaced table of one page                   *)
(* (main_v2.py 120-129).  The ruled tables pdfplumber finds itself (lines  *)
(* 98-118) go to files of their own and do not touch the spaced table.     *)
(***************************************************************************)
DigitChars == <<"0", "1", "2", "3", "4", "5", "6", "7", "8", "9">>

\* f"Col_{i}"
ColLabel(i) == <<"C", "o", "l", "_", DigitChars[i + 1]>>

\* any(row): some cell is a non-empty string
AnyCell(row) == \E c \in DOMAIN row : Len(row[c]) > 0

\* line 122
HasSpacedTable(table) ==
    /\ table # <<>>
    /\ Len(table) > 1
    /\ \E r \in DOMAIN table : AnyCell(table[r])

\* line 125
Headers(table) ==
    IF AnyCell(table[1]) THEN table[1]
    ELSE [i \in DOMAIN table[1] |-> ColLabel(i - 1)]

\* pandas: a cell is missing when it is None/NaN; a string, empty or not, is not
IsNA(cell) == cell = NoneValue

\* DataFrame.dropna(how="all"): drops the rows whose cells are all missing
DropNaAll(rows) ==
    LET Kept(row) == \E c \in DOMAIN row : ~IsNA(row[c])
    IN  SelectSeq(rows, Kept)

\* lines 125-128: the file written for the page's spaced table
SpacedCsv(table) ==
    [headers |-> Headers(table), rows |-> DropNaAll(Tail(table))]

(***************************************************************************)
(* SpecTable: one page through extract_tables_from_pdf.                    *)
(***************************************************************************)
WordXs == {-4, 0, 2}

WordTops == {0, 4, 12}

WordTexts == {<<"a">>, <<",">>}

Words == [x1 : WordXs, top : WordTops, text : WordTexts]

InitTable ==
    /\ pc = "start"
    /\ words \in UNION { [1..n -> Words] : n \in 0..MaxWords }
    /\ min_gap \in 0..MaxMinGap
    /\ columns = <<>>
    /\ cell_words = <<>>
    /\ spaced_table = <<>>
    /\ csv_files = <<>>
    /\ IdleComma /\ IdleDetect /\ IdleClassifier

ExtractTablesFromPage ==
    /\ pc = "start"
    /\ columns' = IF words = <<>> THEN <<>> ELSE PageColumns(words, min_gap)
    /\ cell_words' = IF words = <<>> THEN <<>> ELSE AssignedCells(words, min_gap)
    /\ spaced_table' = extract_spaced_table(words, min_gap)
    /\ csv_files' = IF HasSpacedTable(spaced_table')
                    THEN <<SpacedCsv(spaced_table')>>
                    ELSE <<>>
    /\ pc' = "done"
    /\ UNCHANGED <<words, min_gap, commaVars, detectVars, classifierVars>>

NextTable == ExtractTablesFromPage

SpecTable == InitTable /\ [][NextTable]_vars

\* where word i was appended: <<row, cell, position in the cell>>
Places(i) ==
    { p \in { <<r, c, k>> : r \in DOMAIN cell_words,
                              c \in 1..Len(columns),
                              k \in 1..MaxWords + 1 } :
        /\ p[3] \in DOMAIN cell_words[p[1]][p[2]]
        /\ cell_words[p[1]][p[2]][p[3]] = i }

\* the row of word i: the rank of its key among the keys of the page
RowOf(i) ==
    1 + Cardinality({ k \in Range(RowKeys(words)) : k < RoundTop(words[i].top) })

\* C1: every word is appended to exactly one cell, in its own row: the cell of
\* the lowest band c with x1 <= columns[c + 1]; so a word whose x1 equals a
\* boundary lands in the band left of that boundary.
C1_EachWordInOneCell ==
    pc = "done" =>
        \A i \in DOMAIN words :
            /\ Cardinality(Places(i)) = 1
            /\ \A p \in Places(i) :
                /\ p[1] = RowOf(i)
                /\ words[i].x1 <= columns[p[2] + 1]
                /\ \A c \in 1..(p[2] - 1) : words[i].x1 > columns[c + 1]

\* a word sits exactly on a boundary that has a band on either side, and was
\* appended to the band on the left
C1_Witness ==
    /\ pc = "done"
    /\ \E i \in DOMAIN words : \E p \in Places(i) :
        /\ p[2] + 2 <= Len(columns)
        /\ words[i].x1 = columns[p[2] + 1]

\* the words of a row in the order the row's cells list them
RECURSIVE Flatten(_)
Flatten(row) ==
    IF row = <<>> THEN <<>> ELSE Head(row) \o Flatten(Tail(row))

\* C7: in every row, the cells taken in column order list the row's words in
\* ascending x1: no two words appear in the order opposite to their x1.
C7_RowOrderAscending ==
    pc = "done" =>
        \A r \in DOMAIN cell_words :
            LET f == Flatten(cell_words[r])
            IN  \A a, b \in DOMAIN f : a < b => words[f[a]].x1 <= words[f[b]].x1

\* C8: no data row of a written spaced table has all its cells empty.
C8_NoEmptyDataRow ==
    pc = "done" =>
        \A f \in DOMAIN csv_files :
            \A r \in DOMAIN csv_files[f].rows :
                \E c \in DOMAIN csv_files[f].rows[r] :
                    Strip(csv_files[f].rows[r][c]) # <<>>

\* C9: when the detector returns only the two outer bounds, no spaced-table
\* file is written for the page.
C9_SingleColumnNotWritten ==
    (pc = "done" /\ Len(columns) = 2) => csv_files = <<>>

\* C11: every row of the grid has exactly one cell per column band, that is
\* (number of boundaries - 1) cells, and all rows have that same cell count.
C11_OneCellPerBand ==
    pc = "done" =>
        \A r \in DOMAIN spaced_table :
            /\ Len(spaced_table[r]) = Len(columns) - 1
            /\ \A q \in DOMAIN spaced_table : Len(spaced_table[q]) = Len(spaced_table[r])

(***************************************************************************)
(* pre_filter_financial_page (main.py 79-150), scores in hundredths.       *)
(***************************************************************************)
MinTextLength == 100          \* len(page_text.strip()) < 100

PrefilterThreshold == 40      \* prefilter_score >= 0.4

ConfidenceThreshold == 70     \* confidence > 0.7

\* lines 82 and 331: not page_text or len(page_text.strip()) < 100
InsufficientText(length) == length = 0 \/ length < MinTextLength

\* lines 86-141: f holds the four counts the score is computed from
PrefilterScore(f) ==
    LET keyword_score == IF f.keywords > 0 THEN Min(100, f.keywords * 30) ELSE 0
        symbol_score == IF f.symbols > 0 THEN Min(40, f.symbols * 20) ELSE 0
        pattern_score == IF f.patterns > 0 THEN Min(60, f.patterns * 12) ELSE 0
        structure_score == IF f.lines >= 3 THEN Min(50, f.lines * 5) ELSE 0
    IN  keyword_score + symbol_score + pattern_score + structure_score

\* line 144
PassesPrefilterLow(score) == score >= 4

PassesPrefilter(score) == score >= PrefilterThreshold

\* line 352: has_financial_tables and confidence > 0.7
AcceptsAtThreshold(verdict, conf) == verdict /\ conf >= ConfidenceThreshold

Accepts(verdict, conf) == verdict /\ conf > ConfidenceThreshold

\* lines 370-372: except Exception: ... continue
AfterPageErrorAborts == "done"

AfterPageError == "loop"

(***************************************************************************)
(* SpecClassifier: process_pdf_with_prefilter (main.py 313-374).  Each     *)
(* call the loop body makes is one step; what the page and the outside     *)
(* world answer is chosen at the step.                                     *)
(***************************************************************************)
TextLengths == {0, 99, 100}

\* keyword, symbol and pattern matches and table-like lines of a page:
\* scores 0, 39, 40 and 82
PageFeatures ==
    { [keywords |-> 0, symbols |-> 0, patterns |-> 0, lines |-> 0],
      [keywords |-> 0, symbols |-> 0, patterns |-> 2, lines |-> 3],
      [keywords |-> 0, symbols |-> 2, patterns |-> 0, lines |-> 0],
      [keywords |-> 1, symbols |-> 1, patterns |-> 1, lines |-> 4] }

Confidences == {0, 70, 71}

\* check_financial_table_with_deepseek (lines 199-244):
\*   "ok"      the response parsed; verdict and confidence are returned
\*   "error"   the request, the parse or a missing key raised inside the try;
\*             the handler logs it and returns (False, 0.0)
\*   "raised"  the handler's own log_api_error raised: the exception leaves
\*             the function
ClassifierOutcomes ==
    [kind : {"ok"}, verdict : BOOLEAN, confidence : Confidences]
        \cup { [kind |-> "error", verdict |-> FALSE, confidence |-> 0],
               [kind |-> "raised", verdict |-> FALSE, confidence |-> 0] }

InitClassifier ==
    /\ pc = "start"
    /\ min_gap = 0
    /\ IdleClassifier
    /\ IdleComma /\ IdleDetect /\ IdleTable

clearedLocals ==
    /\ page_text' = 0
    /\ prefilter_score' = 0
    /\ has_financial_tables' = FALSE
    /\ confidence' = 0

\* lines 319-321: pdfplumber.open; a document that cannot be read ends the run
OpenPdf ==
    /\ pc = "start"
    /\ \/ \E n \in 0..MaxPages : total_pages' = n /\ pc' = "loop"
       \/ total_pages' = 0 /\ pc' = "failed"
    /\ UNCHANGED <<min_gap, commaVars, detectVars, tableVars, page_num, processed,
                   total_pages_processed, api_calls_saved, financial_pages,
                   prefilter_logs, stage2_calls, saved_pages, loopLocals>>

\* lines 323-333: the loop takes the next page, counts it and extracts its
\* text (extract_text_with_pdfplumber returns "" when extraction raises)
NextPage ==
    /\ pc = "loop"
    /\ page_num < total_pages
    /\ page_num' = page_num + 1
    /\ processed' = Append(processed, page_num + 1)
    /\ total_pages_processed' = total_pages_processed + 1
    /\ \E length \in TextLengths :
        IF InsufficientText(length)
        THEN pc' = "loop" /\ clearedLocals
        ELSE /\ pc' = "prefilter"
             /\ page_text' = length
             /\ UNCHANGED <<prefilter_score, has_financial_tables, confidence>>
    /\ UNCHANGED <<min_gap, commaVars, detectVars, tableVars, total_pages,
                   api_calls_saved, financial_pages, prefilter_logs, stage2_calls,
                   saved_pages>>

\* lines 336-343 with pre_filter_financial_page (79-150): logged is FALSE when
\* log_prefilter_result raises, which the loop's except turns into a continue
PreFilter ==
    /\ pc = "prefilter"
    /\ \E f \in PageFeatures, logged \in BOOLEAN :
        LET score == PrefilterScore(f)
            entry == [page_number |-> page_num, prefilter_score |-> score,
                      passed_prefilter |-> PassesPrefilter(score),
                      text_length |-> page_text]
        IN  IF InsufficientText(page_text)
            THEN /\ api_calls_saved' = api_calls_saved + 1
                 /\ pc' = "loop" /\ clearedLocals
                 /\ UNCHANGED prefilter_logs
            ELSE IF ~logged
            THEN /\ pc' = AfterPageError /\ clearedLocals
                 /\ UNCHANGED <<api_calls_saved, prefilter_logs>>
            ELSE IF ~PassesPrefilter(score)
            THEN /\ prefilter_logs' = Append(prefilter_logs, entry)
                 /\ api_calls_saved' = api_calls_saved + 1
                 /\ pc' = "loop" /\ clearedLocals
            ELSE /\ prefilter_logs' = Append(prefilter_logs, entry)
                 /\ prefilter_score' = score
                 /\ pc' = "stage2"
                 /\ UNCHANGED <<api_calls_saved, page_text, has_financial_tables,
                                confidence>>
    /\ UNCHANGED <<min_gap, commaVars, detectVars, tableVars, total_pages, page_num,
                   processed, total_pages_processed, financial_pages, stage2_calls,
                   saved_pages>>

\* lines 348-350: the external classifier is called for the page
Stage2 ==
    /\ pc = "stage2"
    /\ \E outcome \in ClassifierOutcomes :
        /\ stage2_calls' = Append(stage2_calls,
                                  [page_number |-> page_num, kind |-> outcome.kind,
                                   verdict |-> outcome.verdict,
                                   confidence |-> outcome.confidence])
        /\ IF outcome.kind = "raised"
           THEN pc' = AfterPageError /\ clearedLocals
           ELSE /\ has_financial_tables' = outcome.verdict
                /\ confidence' = outcome.confidence
                /\ pc' = "decide"
                /\ UNCHANGED <<page_text, prefilter_score>>
    /\ UNCHANGED <<min_gap, commaVars, detectVars, tableVars, total_pages, page_num,
                   processed, total_pages_processed, api_calls_saved, financial_pages,
                   prefilter_logs, saved_pages>>

\* lines 352-368: saved is FALSE when save_financial_page raises
Decide ==
    /\ pc = "decide"
    /\ IF Accepts(has_financial_tables, confidence)
       THEN \E saved \in BOOLEAN :
                IF saved
                THEN /\ saved_pages' = saved_pages \cup {page_num}
                     /\ financial_pages' =
                            Append(financial_pages,
                                   [page_number |-> page_num,
                                    ai_confidence |-> confidence,
                                    prefilter_score |-> prefilter_score])
                     /\ pc' = "loop"
                ELSE /\ pc' = AfterPageError
                     /\ UNCHANGED <<saved_pages, financial_pages>>
       ELSE /\ pc' = "loop"
            /\ UNCHANGED <<saved_pages, financial_pages>>
    /\ clearedLocals
    /\ UNCHANGED <<min_gap, commaVars, detectVars, tableVars, total_pages, page_num,
                   processed, total_pages_processed, api_calls_saved, prefilter_logs,
                   stage2_calls>>

\* line 374: the loop is over
Return ==
    /\ pc = "loop"
    /\ page_num = total_pages
    /\ pc' = "done"
    /\ UNCHANGED <<min_gap, commaVars, detectVars, tableVars, classifierVars>>

NextClassifier == OpenPdf \/ NextPage \/ PreFilter \/ Stage2 \/ Decide \/ Return

SpecClassifier == InitClassifier /\ [][NextClassifier]_vars

\* the pages whose body the loop has completed
Completed == IF pc \in {"loop", "done"} THEN 1..page_num ELSE 1..(page_num - 1)

LoggedFor(p) == { k \in DOMAIN prefilter_logs : prefilter_logs[k].page_number = p }

CallsFor(p) == { k \in DOMAIN stage2_calls : stage2_calls[k].page_number = p }

AcceptedPages == { financial_pages[k].page_number : k \in DOMAIN financial_pages }

\* C3: Stage 2 is invoked for a page only when, before the call, the page's
\* Stage-1 score had been computed and was >= 0.4 and its text had at least 100
\* characters; so a page below either limit never gets a Stage-2 call.
C3_Stage2OnlyAfterPassingStage1 ==
    [][\A k \in DOMAIN stage2_calls' :
          k \notin DOMAIN stage2_calls =>
              \E j \in LoggedFor(stage2_calls'[k].page_number) :
                  /\ prefilter_logs[j].prefilter_score >= PrefilterThreshold
                  /\ prefilter_logs[j].text_length >= MinTextLength]_vars

\* the classifier was called for a page whose score is exactly the threshold,
\* after a page that was rejected by Stage 1 and a page that was skipped
C3_Witness ==
    /\ \E k \in DOMAIN stage2_calls : \E j \in LoggedFor(stage2_calls[k].page_number) :
        prefilter_logs[j].prefilter_score = PrefilterThreshold
    /\ \E j \in DOMAIN prefilter_logs : ~prefilter_logs[j].passed_prefilter
    /\ api_calls_saved > 0
    /\ Len(processed) > Len(prefilter_logs)

ClassifierAccepted(p) ==
    \E k \in CallsFor(p) :
        /\ stage2_calls[k].kind = "ok"
        /\ stage2_calls[k].verdict
        /\ stage2_calls[k].confidence > ConfidenceThreshold

ClassifierFailed(p) ==
    \E k \in CallsFor(p) : stage2_calls[k].kind \in {"error", "raised"}

\* C4 as stated: a page is in financial_pages if and only if Stage 2 was
\* invoked for it and returned true with confidence > 0.7; a page whose
\* classifier call failed is never accepted.
C4_AcceptedIffClassifierAccepted ==
    \A p \in Completed :
        /\ p \in AcceptedPages <=> ClassifierAccepted(p)
        /\ ClassifierFailed(p) => p \notin AcceptedPages

\* C4 as amended: a page is in financial_pages if and only if Stage 2 was
\* invoked for it, returned true with confidence > 0.7, and save_financial_page
\* completed for it; a page whose classifier call failed is never accepted.
C4_AcceptedIffClassifierAcceptedAndSaved ==
    \A p \in Completed :
        /\ p \in AcceptedPages <=> (ClassifierAccepted(p) /\ p \in saved_pages)
        /\ ClassifierFailed(p) => p \notin AcceptedPages

\* one page accepted, one refused at confidence exactly 0.7, one whose
\* classifier call failed
C4_Witness ==
    /\ pc = "done"
    /\ AcceptedPages # {}
    /\ \E p \in Completed : ClassifierFailed(p)
    /\ \E k \in DOMAIN stage2_calls :
        /\ stage2_calls[k].kind = "ok" /\ stage2_calls[k].verdict
        /\ stage2_calls[k].confidence = ConfidenceThreshold

\* C5: a per-page failure never ends the run: the pages are taken one by one in
\* page order whatever happened to the pages before, and when the loop is over
\* every page 1..N has been taken and total_pages_processed = N.
C5_AllPagesProcessed ==
    /\ processed = [i \in 1..page_num |-> i]
    /\ total_pages_processed = page_num
    /\ pc = "done" => total_pages_processed = total_pages

\* the run ended after a classifier failure, an exception out of the classifier
\* and an exception out of the pre-filter log on pages before the last
C5_Witness ==
    /\ pc = "done"
    /\ \E k \in DOMAIN stage2_calls :
        stage2_calls[k].kind = "raised" /\ stage2_calls[k].page_number < total_pages
    /\ \E k \in DOMAIN stage2_calls : stage2_calls[k].kind = "error"
    /\ total_pages_processed = MaxPages

\* C6: when the run moves past a page, exactly one pre-filter log record has
\* been written for it, whatever happened to the page.
C6_OneLogPerPage ==
    \A p \in Completed : Cardinality(LoggedFor(p)) = 1

====
